---- MODULE Spec2Model ----
(***************************************************************************)
(* Model of src/app.py: the header-detecting loader (load_data) and the    *)
(* greedy ledger/bank reconciliation loop.                                 *)
(*                                                                         *)
(* Amounts are integers in thousandths of a currency unit (1000 = 1.000).  *)
(* Date_Obj is <<>> for NaT and <<d>> for the calendar day d.              *)
(* A match record carries, besides the fields the code appends, the two   *)
(* row labels (i, bank_idx) the code holds when it appends the record.     *)
(***************************************************************************)
EXTENDS Integers, Sequences, FiniteSets, TLC

VARIABLES book_clean, bank_clean, date_tolerance, matches, i, pc,
          Missing_in_Bank, Missing_in_Books, matched_count,
          file, df_raw, header_idx, scan_i, enc_i, used_encoding,
          loader_type, ret, lpc

engineVars == <<book_clean, bank_clean, date_tolerance, matches, i, pc,
                Missing_in_Bank, Missing_in_Books, matched_count>>
loaderVars == <<file, df_raw, header_idx, scan_i, enc_i, used_encoding,
                loader_type, ret, lpc>>
vars == <<book_clean, bank_clean, date_tolerance, matches, i, pc,
          Missing_in_Bank, Missing_in_Books, matched_count,
          file, df_raw, header_idx, scan_i, enc_i, used_encoding,
          loader_type, ret, lpc>>

----------------------------------------------------------------------------
(* Bounds *)

MaxBookRows == 2
MaxBankRows == 2
MaxLines == 3

----------------------------------------------------------------------------
(* Numeric helpers *)

Abs(x) == IF x < 0 THEN 0 - x ELSE x

\* atol=0.01 in thousandths
atol == 10
\* numpy's default rtol = 1e-05, kept as its reciprocal
rtol_inv == 100000

\* np.isclose(a, b, atol=0.01): |a - b| <= atol + rtol * |b|.  Over the
\* integers (|a - b| - atol) * (1/rtol) <= |b| is the same as
\* |a - b| - atol <= |b| \div (1/rtol), which stays within 32 bits.
IsClose_NoRtol(a, b) == Abs(a - b) <= atol
IsClose(a, b) == Abs(a - b) - atol <= Abs(b) \div rtol_inv

NaT == <<>>
notna(d) == d # NaT

\* (candidates['Date_Obj'] - book_date).abs().dt.days ; only used on two dates
days_diff(bank_date, book_date) == Abs(bank_date[1] - book_date[1])

----------------------------------------------------------------------------
(* Inputs of the engine: cleaned Debit/Credit (ledger) and                 *)
(* Withdrawal/Deposit (bank) columns with the parsed date column.          *)

BookRows ==
  { [Debit |-> 0, Credit |-> 0, Date_Obj |-> NaT],
    [Debit |-> 200000, Credit |-> 0, Date_Obj |-> <<0>>],
    [Debit |-> 200000, Credit |-> 0, Date_Obj |-> <<1>>],
    [Debit |-> 200000, Credit |-> 0, Date_Obj |-> NaT],
    [Debit |-> 0, Credit |-> 200000, Date_Obj |-> <<1>>],
    [Debit |-> 0, Credit |-> 200000, Date_Obj |-> NaT],
    [Debit |-> 0, Credit |-> 5, Date_Obj |-> NaT] }

BankRows ==
  { [Withdrawal |-> 0, Deposit |-> 0, Date_Obj |-> NaT],
    [Withdrawal |-> 0, Deposit |-> 200000, Date_Obj |-> <<6>>],
    [Withdrawal |-> 0, Deposit |-> 200000, Date_Obj |-> <<7>>],
    [Withdrawal |-> 0, Deposit |-> 200011, Date_Obj |-> <<4>>],
    [Withdrawal |-> 200000, Deposit |-> 0, Date_Obj |-> NaT],
    [Withdrawal |-> 200000, Deposit |-> 0, Date_Obj |-> <<7>>],
    [Withdrawal |-> 200000, Deposit |-> 200000, Date_Obj |-> NaT] }

DateToleranceValues == {5}

SeqsUpTo(S, n) == UNION { [1..k -> S] : k \in 1..n }

----------------------------------------------------------------------------
(* Preprocessing: derived columns *)

BookMatchAmount(x) == IF x.Debit > 0 THEN x.Debit ELSE x.Credit
BookType_Swapped(x) == IF x.Debit > 0 THEN "Payment" ELSE "Receipt"
BookType(x) == IF x.Debit > 0 THEN "Receipt" ELSE "Payment"
BankMatchAmount(x) == IF x.Deposit > 0 THEN x.Deposit ELSE x.Withdrawal
BankType(x) == IF x.Deposit > 0 THEN "Deposit" ELSE "Withdrawal"

PrepBook(x) == [Debit |-> x.Debit, Credit |-> x.Credit, Date_Obj |-> x.Date_Obj,
                Match_Amount |-> BookMatchAmount(x), Type |-> BookType(x),
                Matched |-> FALSE]
PrepBank(x) == [Withdrawal |-> x.Withdrawal, Deposit |-> x.Deposit,
                Date_Obj |-> x.Date_Obj,
                Match_Amount |-> BankMatchAmount(x), Type |-> BankType(x),
                Matched |-> FALSE]

----------------------------------------------------------------------------
(* One iteration of the reconciliation loop, as operators *)

\* candidates = bank_clean[(Type == ...) & isclose(Match_Amount, amt) & (Matched == False)]
Candidates_NoMatchedFilter(bank, b_type, amt) ==
  IF b_type = "Receipt"
  THEN { b \in DOMAIN bank : /\ bank[b].Type = "Deposit"
                             /\ IsClose(bank[b].Match_Amount, amt) }
  ELSE { b \in DOMAIN bank : /\ bank[b].Type = "Withdrawal"
                             /\ IsClose(bank[b].Match_Amount, amt) }
Candidates(bank, b_type, amt) ==
  IF b_type = "Receipt"
  THEN { b \in DOMAIN bank : /\ bank[b].Type = "Deposit"
                             /\ IsClose(bank[b].Match_Amount, amt)
                             /\ bank[b].Matched = FALSE }
  ELSE { b \in DOMAIN bank : /\ bank[b].Type = "Withdrawal"
                             /\ IsClose(bank[b].Match_Amount, amt)
                             /\ bank[b].Matched = FALSE }

\* candidates[candidates['days_diff'] <= date_tolerance]; a NaT bank date
\* gives days_diff NaN, and NaN <= date_tolerance is False
InWindow_Strict(bank_date, book_date, tol) ==
  notna(bank_date) /\ days_diff(bank_date, book_date) < tol
InWindow_KeepNaT(bank_date, book_date, tol) ==
  notna(bank_date) => days_diff(bank_date, book_date) <= tol
InWindow(bank_date, book_date, tol) ==
  notna(bank_date) /\ days_diff(bank_date, book_date) <= tol

ValidCandidates(bank, candidates, book_date, tol) ==
  IF notna(book_date) /\ candidates # {}
  THEN { b \in candidates : InWindow(bank[b].Date_Obj, book_date, tol) }
  ELSE candidates

\* ascending order of days_diff as sort_values places it, NaN last
SortsNoLater(bank_date, other_date, book_date) ==
  notna(other_date) =>
    /\ notna(bank_date)
    /\ days_diff(bank_date, book_date) <= days_diff(other_date, book_date)

\* the labels valid_candidates.index[0] can be: after sort_values('days_diff')
\* a row of least days_diff (sort_values' default quicksort fixes no order
\* among equal keys), otherwise the first row in bank order
FirstCandidate_Last(bank, valid, book_date, sorted) ==
  { b \in valid : \A c \in valid : c <= b }
FirstCandidate(bank, valid, book_date, sorted) ==
  IF sorted
  THEN { b \in valid : \A c \in valid :
           SortsNoLater(bank[b].Date_Obj, bank[c].Date_Obj, book_date) }
  ELSE { b \in valid : \A c \in valid : b <= c }

\* table.at[idx, 'Matched'] = True
SetMatched_Forget(table, idx) == table
SetMatched(table, idx) == [table EXCEPT ![idx].Matched = TRUE]

\* the record appended to matches
MatchRecord(book_row, bank_row, k, bank_idx) ==
  [Amount |-> book_row.Match_Amount, Type |-> book_row.Type,
   Book_Date |-> book_row.Date_Obj, Bank_Date |-> bank_row.Date_Obj,
   book_idx |-> k, bank_idx |-> bank_idx]

\* book_clean[book_clean['Matched'] == False], as the set of row labels
Unmatched(table) == { k \in DOMAIN table : table[k].Matched = FALSE }

----------------------------------------------------------------------------
(* Loader inputs are fixed in the engine specification *)

LoaderIdle ==
  /\ file = [lines |-> <<>>, kind |-> "none"]
  /\ df_raw = <<>>
  /\ header_idx = -1
  /\ scan_i = 0
  /\ enc_i = 1
  /\ used_encoding = "utf-8"
  /\ loader_type = "csv"
  /\ ret = <<>>
  /\ lpc = "idle"

Init ==
  /\ book_clean \in SeqsUpTo(BookRows, MaxBookRows)
  /\ bank_clean \in SeqsUpTo(BankRows, MaxBankRows)
  /\ date_tolerance \in DateToleranceValues
  /\ matches = <<>>
  /\ i = 1
  /\ pc = "preprocess"
  /\ Missing_in_Bank = {}
  /\ Missing_in_Books = {}
  /\ matched_count = 0
  /\ LoaderIdle

Preprocess ==
  /\ pc = "preprocess"
  /\ book_clean' = [k \in DOMAIN book_clean |-> PrepBook(book_clean[k])]
  /\ bank_clean' = [k \in DOMAIN bank_clean |-> PrepBank(bank_clean[k])]
  /\ matches' = <<>>
  /\ i' = 1
  /\ pc' = "loop"
  /\ UNCHANGED <<date_tolerance, Missing_in_Bank, Missing_in_Books, matched_count>>
  /\ UNCHANGED loaderVars

\* if amt == 0: continue
SkipZero ==
  /\ pc = "loop"
  /\ i <= Len(book_clean)
  /\ book_clean[i].Match_Amount = 0
  /\ i' = i + 1
  /\ UNCHANGED <<book_clean, bank_clean, date_tolerance, matches, pc,
                 Missing_in_Bank, Missing_in_Books, matched_count>>
  /\ UNCHANGED loaderVars

\* a row with candidates left after the date filter is paired
MatchRow ==
  /\ pc = "loop"
  /\ i <= Len(book_clean)
  /\ book_clean[i].Match_Amount # 0
  /\ LET book_row == book_clean[i]
         amt == book_row.Match_Amount
         book_date == book_row.Date_Obj
         candidates == Candidates(bank_clean, book_row.Type, amt)
         valid == ValidCandidates(bank_clean, candidates, book_date, date_tolerance)
         sorted == notna(book_date) /\ candidates # {} /\ valid # {}
     IN /\ valid # {}
        /\ \E bank_idx \in FirstCandidate(bank_clean, valid, book_date, sorted) :
             /\ book_clean' = SetMatched(book_clean, i)
             /\ bank_clean' = SetMatched(bank_clean, bank_idx)
             /\ matches' = Append(matches,
                                  MatchRecord(book_row, bank_clean[bank_idx], i, bank_idx))
  /\ i' = i + 1
  /\ UNCHANGED <<date_tolerance, pc, Missing_in_Bank, Missing_in_Books, matched_count>>
  /\ UNCHANGED loaderVars

\* a row with no valid candidate is left as it is
NoMatchRow ==
  /\ pc = "loop"
  /\ i <= Len(book_clean)
  /\ book_clean[i].Match_Amount # 0
  /\ LET book_row == book_clean[i]
         candidates == Candidates(bank_clean, book_row.Type, book_row.Match_Amount)
         valid == ValidCandidates(bank_clean, candidates, book_row.Date_Obj, date_tolerance)
     IN valid = {}
  /\ i' = i + 1
  /\ UNCHANGED <<book_clean, bank_clean, date_tolerance, matches, pc,
                 Missing_in_Bank, Missing_in_Books, matched_count>>
  /\ UNCHANGED loaderVars

\* the loop is exhausted: count, tabs and report sheets
Results ==
  /\ pc = "loop"
  /\ i > Len(book_clean)
  /\ matched_count' = Len(matches)
  /\ Missing_in_Bank' = Unmatched(book_clean)
  /\ Missing_in_Books' = Unmatched(bank_clean)
  /\ pc' = "done"
  /\ UNCHANGED <<book_clean, bank_clean, date_tolerance, matches, i>>
  /\ UNCHANGED loaderVars

Next ==
  \/ Preprocess
  \/ SkipZero
  \/ MatchRow
  \/ NoMatchRow
  \/ Results

Spec == Init /\ [][Next]_vars

----------------------------------------------------------------------------
(* load_data: a file is its lines, each line a row of cells, each cell a   *)
(* sequence of characters; kind names the first reader that parses it.     *)

UpperCase == <<"A", "B", "C", "D", "E", "F", "G", "H", "I", "J", "K", "L", "M",
               "N", "O", "P", "Q", "R", "S", "T", "U", "V", "W", "X", "Y", "Z">>
LowerCase == <<"a", "b", "c", "d", "e", "f", "g", "h", "i", "j", "k", "l", "m",
               "n", "o", "p", "q", "r", "s", "t", "u", "v", "w", "x", "y", "z">>

\* str.lower() on one character and on a cell
LowerChar(c) ==
  IF \E k \in 1..Len(UpperCase) : UpperCase[k] = c
  THEN LowerCase[CHOOSE k \in 1..Len(UpperCase) : UpperCase[k] = c]
  ELSE c
Lower(s) == [k \in 1..Len(s) |-> LowerChar(s[k])]

\* kw in s
Contains(kw, s) ==
  \E k \in 1..(Len(s) - Len(kw) + 1) : SubSeq(s, k, k + Len(kw) - 1) = kw

kw_date == <<"d", "a", "t", "e">>
kw_narration == <<"n", "a", "r", "r", "a", "t", "i", "o", "n">>
kw_vch == <<"v", "c", "h">>
kw_type == <<"t", "y", "p", "e">>

\* any(kw in s for s in row_str)
AnyContains(kw, row_str) == \E k \in 1..Len(row_str) : Contains(kw, row_str[k])

\* row.astype(str).str.lower().tolist()
RowStr(row) == [k \in 1..Len(row) |-> Lower(row[k])]

is_bank_header(row_str) ==
  AnyContains(kw_narration, row_str) /\ AnyContains(kw_date, row_str)
is_book_header(row_str) ==
  /\ AnyContains(kw_vch, row_str) \/ AnyContains(kw_type, row_str)
  /\ AnyContains(kw_date, row_str)

encodings == <<"utf-8", "ISO-8859-1", "cp1252">>

FileLines ==
  { <<<<"A", "c", "m", "e", " ", "B", "a", "n", "k">>, <<"n", "a", "n">>>>,
    <<<<"D", "a", "t", "e">>, <<"N", "a", "r", "r", "a", "t", "i", "o", "n">>>>,
    <<<<"D", "A", "T", "E">>, <<"V", "c", "h", " ", "T", "y", "p", "e">>>>,
    <<<<"D", "a", "t", "e">>, <<"D", "e", "b", "i", "t">>>>,
    <<<<"T", "x", "n", " ", "D", "a", "t", "e">>, <<"A", "c", "c", "o", "u", "n", "t">>>>,
    <<<<"0", "1", "-", "0", "2", "-", "2", "4">>, <<"R", "e", "n", "t">>>> }

FileKinds == {"utf-8", "ISO-8859-1", "cp1252", "excel", "none"}

\* pd.read_csv(file) / pd.read_excel(file): the first line names the columns
ReadTable(lines) == [columns |-> lines[1], rows |-> Tail(lines)]

\* pd.read_csv(file, header=h) / pd.read_excel(file, header=h): line h
\* (0-based) names the columns, the lines below it are the data
ReadTableWithHeader(lines, h) ==
  [columns |-> lines[h + 1], rows |-> SubSeq(lines, h + 2, Len(lines))]

\* step 4 of load_data
Reloaded_Strict(lines, raw, hidx) ==
  IF hidx # -1 THEN <<ReadTableWithHeader(lines, hidx + 1)>> ELSE <<>>
Reloaded(lines, raw, hidx) ==
  IF hidx # -1 THEN <<ReadTableWithHeader(lines, hidx + 1)>> ELSE <<raw>>

EngineIdle ==
  /\ book_clean = <<>>
  /\ bank_clean = <<>>
  /\ date_tolerance = 5
  /\ matches = <<>>
  /\ i = 1
  /\ pc = "idle"
  /\ Missing_in_Bank = {}
  /\ Missing_in_Books = {}
  /\ matched_count = 0

InitLoad ==
  /\ file \in [lines : SeqsUpTo(FileLines, MaxLines), kind : FileKinds]
  /\ df_raw = <<>>
  /\ header_idx = -1
  /\ scan_i = 0
  /\ enc_i = 1
  /\ used_encoding = "utf-8"
  /\ loader_type = "csv"
  /\ ret = <<>>
  /\ lpc = "csv"
  /\ EngineIdle

\* one pass of the encodings loop: read_csv succeeds and breaks
ReadCsv ==
  /\ lpc = "csv"
  /\ enc_i <= Len(encodings)
  /\ file.kind = encodings[enc_i]
  /\ df_raw' = <<ReadTable(file.lines)>>
  /\ used_encoding' = encodings[enc_i]
  /\ loader_type' = "csv"
  /\ lpc' = "scan"
  /\ UNCHANGED <<file, header_idx, scan_i, enc_i, ret>>
  /\ UNCHANGED engineVars

\* one pass of the encodings loop: read_csv raises and the loop continues
ReadCsvFails ==
  /\ lpc = "csv"
  /\ enc_i <= Len(encodings)
  /\ file.kind # encodings[enc_i]
  /\ enc_i' = enc_i + 1
  /\ lpc' = IF enc_i + 1 > Len(encodings) THEN "excel" ELSE "csv"
  /\ UNCHANGED <<file, df_raw, header_idx, scan_i, used_encoding, loader_type, ret>>
  /\ UNCHANGED engineVars

ReadExcel ==
  /\ lpc = "excel"
  /\ file.kind = "excel"
  /\ df_raw' = <<ReadTable(file.lines)>>
  /\ loader_type' = "excel"
  /\ lpc' = "scan"
  /\ UNCHANGED <<file, header_idx, scan_i, enc_i, used_encoding, ret>>
  /\ UNCHANGED engineVars

\* "Could not read ...": return None
ReadExcelFails ==
  /\ lpc = "excel"
  /\ file.kind # "excel"
  /\ ret' = <<>>
  /\ lpc' = "done"
  /\ UNCHANGED <<file, df_raw, header_idx, scan_i, enc_i, used_encoding, loader_type>>
  /\ UNCHANGED engineVars

\* one pass of the iterrows loop; scan_i is the 0-based row label i
ScanRow ==
  /\ lpc = "scan"
  /\ scan_i < Len(df_raw[1].rows)
  /\ LET row_str == RowStr(df_raw[1].rows[scan_i + 1])
     IN IF is_bank_header(row_str) \/ is_book_header(row_str)
        THEN /\ header_idx' = scan_i
             /\ lpc' = "reload"
             /\ UNCHANGED scan_i
        ELSE /\ scan_i' = scan_i + 1
             /\ UNCHANGED <<header_idx, lpc>>
  /\ UNCHANGED <<file, df_raw, enc_i, used_encoding, loader_type, ret>>
  /\ UNCHANGED engineVars

\* the iterrows loop runs out of rows
ScanEnd ==
  /\ lpc = "scan"
  /\ scan_i >= Len(df_raw[1].rows)
  /\ lpc' = "reload"
  /\ UNCHANGED <<file, df_raw, header_idx, scan_i, enc_i, used_encoding, loader_type, ret>>
  /\ UNCHANGED engineVars

Reload ==
  /\ lpc = "reload"
  /\ ret' = Reloaded(file.lines, df_raw[1], header_idx)
  /\ lpc' = "done"
  /\ UNCHANGED <<file, df_raw, header_idx, scan_i, enc_i, used_encoding, loader_type>>
  /\ UNCHANGED engineVars

NextLoad ==
  \/ ReadCsv
  \/ ReadCsvFails
  \/ ReadExcel
  \/ ReadExcelFails
  \/ ScanRow
  \/ ScanEnd
  \/ Reload

SpecLoad == InitLoad /\ [][NextLoad]_vars

----------------------------------------------------------------------------
(* Properties of the reconciliation engine, checked under Spec *)

Reconciling == pc \in {"loop", "done"}

InMatchesAsBook(k) == \E m \in 1..Len(matches) : matches[m].book_idx = k
InMatchesAsBank(b) == \E m \in 1..Len(matches) : matches[m].bank_idx = b

\* directions that stand for the same movement of money
Corresponds(book_type, bank_type) ==
  \/ book_type = "Receipt" /\ bank_type = "Deposit"
  \/ book_type = "Payment" /\ bank_type = "Withdrawal"

\* whole days between two parsed dates
DaysApart(d1, d2) == IF d1[1] >= d2[1] THEN d1[1] - d2[1] ELSE d2[1] - d1[1]

\* bank row b passes the direction and amount tests of ledger row k
AmountDirectionOk(k, b) ==
  /\ Corresponds(book_clean[k].Type, bank_clean[b].Type)
  /\ Abs(bank_clean[b].Match_Amount - book_clean[k].Match_Amount) - atol
       <= Abs(book_clean[k].Match_Amount) \div rtol_inv

\* C1: after a completed reconciliation every ledger and every bank
\* transaction of non-zero magnitude is in exactly one bucket: in a match
\* record, with its Matched flag true, or in its side's unmatched result
\* set (Missing_in_Bank, Missing_in_Books), never both and never neither.
C1_ExactlyOneBucket ==
  pc = "done" =>
    /\ \A k \in DOMAIN book_clean :
         book_clean[k].Match_Amount # 0 =>
           /\ InMatchesAsBook(k) <=> book_clean[k].Matched
           /\ InMatchesAsBook(k) <=> k \notin Missing_in_Bank
    /\ \A b \in DOMAIN bank_clean :
         bank_clean[b].Match_Amount # 0 =>
           /\ InMatchesAsBank(b) <=> bank_clean[b].Matched
           /\ InMatchesAsBank(b) <=> b \notin Missing_in_Books

C1_Witness ==
  /\ pc = "done"
  /\ \E k \in DOMAIN book_clean :
       book_clean[k].Match_Amount # 0 /\ InMatchesAsBook(k)
  /\ \E k \in DOMAIN book_clean :
       book_clean[k].Match_Amount # 0 /\ k \in Missing_in_Bank
  /\ \E b \in DOMAIN bank_clean :
       bank_clean[b].Match_Amount # 0 /\ InMatchesAsBank(b)
  /\ \E b \in DOMAIN bank_clean :
       bank_clean[b].Match_Amount # 0 /\ b \in Missing_in_Books

\* C2: a transaction of magnitude 0, in the ledger or in the bank table, is
\* never paired in a match record and never appears in the ledger-unmatched
\* or the bank-unmatched result set.
C2_ZeroInert ==
  pc = "done" =>
    /\ \A k \in DOMAIN book_clean :
         book_clean[k].Match_Amount = 0 =>
           ~InMatchesAsBook(k) /\ k \notin Missing_in_Bank
    /\ \A b \in DOMAIN bank_clean :
         bank_clean[b].Match_Amount = 0 =>
           ~InMatchesAsBank(b) /\ b \notin Missing_in_Books

\* C3: the amount tolerance is a fixed, inclusive 0.01 whatever the size of
\* the amounts: no match record pairs magnitudes more than 0.01 apart, and
\* two transactions of corresponding direction whose magnitudes are at most
\* 0.01 apart, with no date test between them or within the date window,
\* are not both left unmatched.
C3_FixedTolerance ==
  pc = "done" =>
    /\ \A m \in 1..Len(matches) :
         Abs(bank_clean[matches[m].bank_idx].Match_Amount - matches[m].Amount) <= atol
    /\ \A k \in Missing_in_Bank : \A b \in Missing_in_Books :
         ( /\ book_clean[k].Match_Amount # 0
           /\ Corresponds(book_clean[k].Type, bank_clean[b].Type)
           /\ notna(book_clean[k].Date_Obj) =>
                /\ notna(bank_clean[b].Date_Obj)
                /\ DaysApart(bank_clean[b].Date_Obj, book_clean[k].Date_Obj)
                     <= date_tolerance )
         => Abs(bank_clean[b].Match_Amount - book_clean[k].Match_Amount) > atol

\* C4: no match record pairs two dated transactions more than
\* date_tolerance days apart, and two dated transactions of the same amount
\* and corresponding direction that are within date_tolerance days of each
\* other are not both left unmatched (with tolerance 5: 5 days apart are
\* matched, 6 days apart are not).
C4_DateWindow ==
  /\ \A m \in 1..Len(matches) :
       (notna(matches[m].Book_Date) /\ notna(matches[m].Bank_Date)) =>
         DaysApart(matches[m].Bank_Date, matches[m].Book_Date) <= date_tolerance
  /\ pc = "done" =>
       \A k \in DOMAIN book_clean : \A b \in DOMAIN bank_clean :
         ( /\ book_clean[k].Match_Amount # 0
           /\ book_clean[k].Match_Amount = bank_clean[b].Match_Amount
           /\ Corresponds(book_clean[k].Type, bank_clean[b].Type)
           /\ notna(book_clean[k].Date_Obj) /\ notna(bank_clean[b].Date_Obj)
           /\ k \in Missing_in_Bank /\ b \in Missing_in_Books )
         => DaysApart(bank_clean[b].Date_Obj, book_clean[k].Date_Obj) > date_tolerance

C4_Witness ==
  /\ pc = "done"
  /\ date_tolerance = 5
  /\ \E m \in 1..Len(matches) :
       /\ notna(matches[m].Book_Date) /\ notna(matches[m].Bank_Date)
       /\ DaysApart(matches[m].Bank_Date, matches[m].Book_Date) = 5
       /\ bank_clean[matches[m].bank_idx].Match_Amount = matches[m].Amount
  /\ \E k \in Missing_in_Bank : \E b \in Missing_in_Books :
       /\ book_clean[k].Match_Amount # 0
       /\ book_clean[k].Match_Amount = bank_clean[b].Match_Amount
       /\ Corresponds(book_clean[k].Type, bank_clean[b].Type)
       /\ notna(book_clean[k].Date_Obj) /\ notna(bank_clean[b].Date_Obj)
       /\ DaysApart(bank_clean[b].Date_Obj, book_clean[k].Date_Obj) = 6

\* C5 as stated: whenever the ledger transaction or the bank transaction
\* lacks a parsed date the pair is matched on amount and direction alone,
\* so a ledger transaction is not left unmatched while a bank transaction
\* passing its amount and direction tests is still unmatched.
C5_EitherSideUndated ==
  pc = "done" =>
    \A k \in DOMAIN book_clean : \A b \in DOMAIN bank_clean :
      ( /\ book_clean[k].Match_Amount # 0
        /\ AmountDirectionOk(k, b)
        /\ ~notna(book_clean[k].Date_Obj) \/ ~notna(bank_clean[b].Date_Obj)
        /\ b \in Missing_in_Books )
      => k \notin Missing_in_Bank

\* C5 amended: the date window is applied whenever the ledger transaction
\* carries a parsed date, and then a bank transaction without a parsed
\* date is no candidate; a ledger transaction without a parsed date is
\* matched on amount and direction alone, whatever the bank date.
C5_LedgerDateDecides ==
  /\ \A m \in 1..Len(matches) :
       notna(matches[m].Book_Date) =>
         /\ notna(matches[m].Bank_Date)
         /\ DaysApart(matches[m].Bank_Date, matches[m].Book_Date) <= date_tolerance
  /\ pc = "done" =>
       \A k \in DOMAIN book_clean : \A b \in DOMAIN bank_clean :
         ( /\ book_clean[k].Match_Amount # 0
           /\ AmountDirectionOk(k, b)
           /\ ~notna(book_clean[k].Date_Obj)
           /\ b \in Missing_in_Books )
         => k \notin Missing_in_Bank

C5_Witness ==
  /\ pc = "done"
  /\ \E m \in 1..Len(matches) :
       /\ ~notna(matches[m].Book_Date)
       /\ notna(matches[m].Bank_Date)
  /\ \E k \in Missing_in_Bank : \E b \in Missing_in_Books :
       /\ book_clean[k].Match_Amount # 0
       /\ AmountDirectionOk(k, b)
       /\ notna(book_clean[k].Date_Obj)
       /\ ~notna(bank_clean[b].Date_Obj)

\* C6: a ledger row with a positive debit and zero credit is classified
\* Receipt, and every match record pairs a Receipt with a Deposit and a
\* Payment with a Withdrawal.
C6_Direction ==
  Reconciling =>
    /\ \A k \in DOMAIN book_clean :
         (book_clean[k].Debit > 0 /\ book_clean[k].Credit = 0)
           => book_clean[k].Type = "Receipt"
    /\ \A m \in 1..Len(matches) :
         /\ matches[m].Type = book_clean[matches[m].book_idx].Type
         /\ matches[m].Type = "Receipt"
              => bank_clean[matches[m].bank_idx].Type = "Deposit"
         /\ matches[m].Type = "Payment"
              => bank_clean[matches[m].bank_idx].Type = "Withdrawal"
         /\ matches[m].Type \in {"Receipt", "Payment"}

C6_Witness ==
  /\ pc = "done"
  /\ \E m \in 1..Len(matches) :
       /\ book_clean[matches[m].book_idx].Debit > 0
       /\ book_clean[matches[m].book_idx].Credit = 0
       /\ matches[m].Type = "Receipt"
  /\ \E k \in Missing_in_Bank : \E b \in DOMAIN bank_clean :
       /\ book_clean[k].Match_Amount # 0
       /\ ~Corresponds(book_clean[k].Type, bank_clean[b].Type)
       /\ book_clean[k].Match_Amount = bank_clean[b].Match_Amount
       /\ b \in Missing_in_Books

\* C7: a Matched flag changes only from false to true, only at the step
\* that appends the match record of that row, and never changes back; a
\* row already flagged is never paired again, so the match records pair
\* each ledger row and each bank row at most once and their number equals
\* the number of flagged ledger rows and of flagged bank rows.
C7_Inv ==
  Reconciling =>
    /\ \A m \in 1..Len(matches) : \A n \in 1..Len(matches) :
         m # n => /\ matches[m].book_idx # matches[n].book_idx
                  /\ matches[m].bank_idx # matches[n].bank_idx
    /\ Len(matches) = Cardinality({ k \in DOMAIN book_clean : book_clean[k].Matched })
    /\ Len(matches) = Cardinality({ b \in DOMAIN bank_clean : bank_clean[b].Matched })
    /\ pc = "done" => matched_count = Len(matches)

C7_Step ==
  pc = "loop" =>
    /\ \A k \in DOMAIN book_clean :
         /\ book_clean[k].Matched => book_clean'[k].Matched
         /\ (book_clean'[k].Matched # book_clean[k].Matched) =>
              /\ Len(matches') = Len(matches) + 1
              /\ matches'[Len(matches')].book_idx = k
    /\ \A b \in DOMAIN bank_clean :
         /\ bank_clean[b].Matched => bank_clean'[b].Matched
         /\ (bank_clean'[b].Matched # bank_clean[b].Matched) =>
              /\ Len(matches') = Len(matches) + 1
              /\ matches'[Len(matches')].bank_idx = b
    /\ (matches' # matches) =>
         /\ ~book_clean[matches'[Len(matches')].book_idx].Matched
         /\ ~bank_clean[matches'[Len(matches')].bank_idx].Matched

C7_MatchedOnce == []C7_Inv /\ [][C7_Step]_vars

C7_Witness ==
  /\ pc = "done"
  /\ matched_count = 2
  /\ \E k \in DOMAIN book_clean : \E n \in DOMAIN book_clean :
       /\ k < n
       /\ book_clean[k].Match_Amount = book_clean[n].Match_Amount
       /\ book_clean[k].Type = book_clean[n].Type
       /\ matches[1].book_idx = k /\ matches[2].book_idx = n
       /\ AmountDirectionOk(n, matches[1].bank_idx)

\* bank rows ledger row k may be paired with, given the flags as they are
Eligible(k) ==
  { b \in DOMAIN bank_clean :
      /\ ~bank_clean[b].Matched
      /\ AmountDirectionOk(k, b)
      /\ notna(book_clean[k].Date_Obj) =>
           /\ notna(bank_clean[b].Date_Obj)
           /\ DaysApart(bank_clean[b].Date_Obj, book_clean[k].Date_Obj) <= date_tolerance }

\* bank row b would pass every test of ledger row k, flags aside
WouldSuit(k, b) ==
  /\ AmountDirectionOk(k, b)
  /\ notna(book_clean[k].Date_Obj) =>
       /\ notna(bank_clean[b].Date_Obj)
       /\ DaysApart(bank_clean[b].Date_Obj, book_clean[k].Date_Obj) <= date_tolerance

\* C8: ledger rows are processed in row order and match records are
\* emitted in that order; a dated ledger row is paired with an eligible
\* unmatched bank row of smallest date distance, an undated one with the
\* earliest eligible unmatched bank row; and of two ledger rows A before B,
\* B never holds a bank row that suited A while A is left unmatched.
C8_Inv ==
  Reconciling =>
    /\ \A m \in 1..Len(matches) : \A n \in 1..Len(matches) :
         m < n => matches[m].book_idx < matches[n].book_idx
    /\ \A m \in 1..Len(matches) : matches[m].book_idx < i
    /\ \A m \in 1..Len(matches) : \A k \in DOMAIN book_clean :
         ( /\ k < matches[m].book_idx
           /\ book_clean[k].Match_Amount # 0
           /\ WouldSuit(k, matches[m].bank_idx) )
         => book_clean[k].Matched

C8_Step ==
  (pc = "loop" /\ matches' # matches) =>
    LET r == matches'[Len(matches')]
    IN /\ matches' = Append(matches, r)
       /\ r.book_idx = i
       /\ i' = i + 1
       /\ r.bank_idx \in Eligible(i)
       /\ notna(book_clean[i].Date_Obj) =>
            \A c \in Eligible(i) :
              DaysApart(bank_clean[r.bank_idx].Date_Obj, book_clean[i].Date_Obj)
                <= DaysApart(bank_clean[c].Date_Obj, book_clean[i].Date_Obj)
       /\ ~notna(book_clean[i].Date_Obj) =>
            \A c \in Eligible(i) : r.bank_idx <= c

C8_GreedyFirst == []C8_Inv /\ [][C8_Step]_vars

\* row A took, by date distance, the later of two bank rows that were both
\* eligible, and row B after it is unmatched although A's bank row suits it
C8_Witness ==
  /\ pc = "done"
  /\ Len(matches) = 1
  /\ matches[1].book_idx = 1
  /\ matches[1].bank_idx = 2
  /\ notna(book_clean[1].Date_Obj)
  /\ WouldSuit(1, 1)
  /\ DaysApart(bank_clean[2].Date_Obj, book_clean[1].Date_Obj)
       < DaysApart(bank_clean[1].Date_Obj, book_clean[1].Date_Obj)
  /\ 2 \in Missing_in_Bank
  /\ book_clean[2].Type = book_clean[1].Type
  /\ book_clean[2].Match_Amount = book_clean[1].Match_Amount
  /\ WouldSuit(2, 2)

----------------------------------------------------------------------------
(* Properties of load_data, checked under SpecLoad *)

kw_debit == <<"d", "e", "b", "i", "t">>
kw_credit == <<"c", "r", "e", "d", "i", "t">>
kw_withdraw == <<"w", "i", "t", "h", "d", "r", "a", "w">>
kw_deposit == <<"d", "e", "p", "o", "s", "i", "t">>
kw_particulars == <<"p", "a", "r", "t", "i", "c", "u", "l", "a", "r", "s">>
kw_account == <<"a", "c", "c", "o", "u", "n", "t">>

HeaderKeywords == {kw_narration, kw_debit, kw_credit, kw_withdraw, kw_deposit,
                   kw_vch, kw_particulars, kw_account, kw_type}

\* the row holds a cell matching "date" and a cell matching a keyword
Qualifies(row) ==
  /\ AnyContains(kw_date, RowStr(row))
  /\ \E kw \in HeaderKeywords : AnyContains(kw, RowStr(row))

QualifyingRows == { k \in 1..Len(df_raw[1].rows) : Qualifies(df_raw[1].rows[k]) }

C10_HeaderRow ==
  (lpc = "done" /\ df_raw # <<>> /\ QualifyingRows # {}) =>
    LET h == CHOOSE k \in QualifyingRows : \A n \in QualifyingRows : k <= n
    IN /\ header_idx = h - 1
       /\ ret = <<[columns |-> df_raw[1].rows[h],
                   rows |-> SubSeq(df_raw[1].rows, h + 1, Len(df_raw[1].rows))]>>

====
